---- MODULE Spec2Model ----
(***************************************************************************)
(* A model of IronSwallowORM (src/models.py): the time reconciliation      *)
(* helpers, the darwin_* tables with the constraints the declarative       *)
(* classes state, the relationships between them and the serialisation     *)
(* methods.                                                                *)
(*                                                                         *)
(* Conventions.  A nullable value is None (the empty tuple) or Some(v)     *)
(* (the one-element tuple <<v>>).  A time of day is a record               *)
(* [hour, minute, second]; a datetime is a record [date, hour, minute,     *)
(* second] whose date is a proleptic day ordinal (date.toordinal()).       *)
(* loc_type, a VARCHAR matched with LIKE, is a tuple of characters; other  *)
(* strings are TLA+ strings.                                               *)
(***************************************************************************)
EXTENDS Integers, Sequences, FiniteSets, TLC

VARIABLES
    schedules,      \* darwin_schedules: set of rows
    locations,      \* darwin_schedule_locations: sequence of rows, heap (insertion) order
    statuses,       \* darwin_schedule_status: set of rows
    associations,   \* darwin_associations: set of rows
    outcome,        \* what the store answered to the last statement
    args,           \* the arguments of the call under study (pure functions)
    ret             \* NotCalled, or the result of the call

vars == <<schedules, locations, statuses, associations, outcome, args, ret>>

store == <<schedules, locations, statuses, associations, outcome>>

(***************************************************************************)
(* Python values                                                           *)
(***************************************************************************)
None == <<>>

Some(v) == <<v>>

Val(o) == o[1]

NotCalled == [kind |-> "not called"]

Return(v) == [kind |-> "return", value |-> v]

Raise(e) == [kind |-> "raise", error |-> e]

\* bool(x) of an optional datetime/time: None is falsy, every datetime and
\* every time (midnight included, Python >= 3.5) is truthy.
TruthyTime(o) == o # None

\* bool(x) of an optional str: None and "" are falsy.
TruthyStr(o) == o # None /\ Val(o) # ""

\* s * n for a str s and an int n (n <= 0 gives "").
RECURSIVE StrRepeat(_, _)
StrRepeat(s, n) == IF n <= 0 THEN "" ELSE s \o StrRepeat(s, n - 1)

\* int(b) of a bool, as used by str * bool.
BoolToInt(b) == IF b THEN 1 ELSE 0

(***************************************************************************)
(* Time reconciliation: _compare_time, _combine_darwin_time                *)
(***************************************************************************)
SecondsPerHour == 3600

\* a.hour*3600 + a.minute*60 + a.second
SecondsOf(a) == a.hour * 3600 + a.minute * 60 + a.second

\* The exact quotient (Decimal(t1) - Decimal(t2)) / 3600, kept as a fraction.
_compare_time(t1, t2) ==
    IF ~(TruthyTime(t1) /\ TruthyTime(t2))
    THEN [num |-> 0, den |-> 1]
    ELSE [num |-> SecondsOf(Val(t1)) - SecondsOf(Val(t2)), den |-> SecondsPerHour]

\* q < n, q <= n for a fraction q with a positive denominator and an integer n
FracLt(q, n) == q.num < n * q.den

FracLe(q, n) == q.num <= n * q.den

FracGt(q, n) == q.num > n * q.den

FracGe(q, n) == q.num >= n * q.den

EarlyHours == -6

LateHours == 18

\* The if / elif / elif of _combine_darwin_time: the offsets the branches bind
\* to ssd_offset; the empty set when no branch is taken (ssd_offset unbound).
SsdOffsetMutEarly(working_time, darwin_time) ==
    LET d == _compare_time(darwin_time, working_time) IN
    IF FracLe(d, EarlyHours) THEN {1}
    ELSE IF FracGe(d, EarlyHours) /\ FracLe(d, LateHours) THEN {0}
    ELSE IF FracGt(d, LateHours) THEN {-1}
    ELSE {}

SsdOffset(working_time, darwin_time) ==
    LET d == _compare_time(darwin_time, working_time) IN
    IF FracLt(d, EarlyHours) THEN {1}
    ELSE IF FracGe(d, EarlyHours) /\ FracLe(d, LateHours) THEN {0}
    ELSE IF FracGt(d, LateHours) THEN {-1}
    ELSE {}

\* datetime.datetime.combine(date, time)
Combine(date, t) ==
    [date |-> date, hour |-> t.hour, minute |-> t.minute, second |-> t.second]

\* dt + datetime.timedelta(days=n), with the days left out
PlusDaysMutNoShift(dt, n) == dt

\* dt + datetime.timedelta(days=n)
PlusDays(dt, n) == [dt EXCEPT !.date = @ + n]

\* The guard of line 19 with "and" in place of "or".
AbsentGuardMutAnd(working_time, darwin_time) ==
    ~TruthyTime(working_time) /\ ~TruthyTime(darwin_time)

AbsentGuard(working_time, darwin_time) ==
    ~TruthyTime(working_time) \/ ~TruthyTime(darwin_time)

_combine_darwin_time(working_time, darwin_time) ==
    IF AbsentGuard(working_time, darwin_time)
    THEN Return(None)
    ELSE IF working_time = None \/ darwin_time = None
    THEN Raise("AttributeError")       \* None.date(), or combine(date, None)
    ELSE LET off == SsdOffset(working_time, darwin_time) IN
         IF off = {}
         THEN Raise("UnboundLocalError")
         ELSE Return(Some(PlusDays(Combine(Val(working_time).date, Val(darwin_time)),
                                   CHOOSE o \in off : TRUE)))

(***************************************************************************)
(* Inputs of the time reconciliation calls                                 *)
(***************************************************************************)
Hours == 0 .. 23

Minutes == {0, 30, 59}

Seconds == {0, 1, 59}

TimesOfDay == [hour : Hours, minute : Minutes, second : Seconds]

\* 2020-01-01 and 2020-01-02 as day ordinals
Dates == {737425, 737426}

DateTimes == [date : Dates, hour : Hours, minute : Minutes, second : Seconds]

OptTimesOfDay == {None} \cup {Some(t) : t \in TimesOfDay}

OptDateTimes == {None} \cup {Some(t) : t \in DateTimes}

EmptyStore ==
    /\ schedules = {}
    /\ locations = <<>>
    /\ statuses = {}
    /\ associations = {}
    /\ outcome = "none"

InitTime ==
    /\ EmptyStore
    /\ args \in [working_time : OptDateTimes, darwin_time : OptTimesOfDay]
    /\ ret = NotCalled

CombineCall ==
    /\ ret = NotCalled
    /\ ret' = _combine_darwin_time(args.working_time, args.darwin_time)
    /\ UNCHANGED <<store, args>>

NextTime == CombineCall

SpecTime == InitTime /\ [][NextTime]_vars

(***************************************************************************)
(* collections.OrderedDict: a sequence of <<key, value>> pairs              *)
(***************************************************************************)
DictKeys(d) == {d[i][1] : i \in 1 .. Len(d)}

DictGet(d, k) == d[CHOOSE i \in 1 .. Len(d) : d[i][1] = k][2]

\* d[k] = v: replaces the value of a key already there, else appends.
DictSet(d, k, v) ==
    IF k \in DictKeys(d)
    THEN [i \in 1 .. Len(d) |-> IF d[i][1] = k THEN <<k, v>> ELSE d[i]]
    ELSE Append(d, <<k, v>>)

(***************************************************************************)
(* DarwinScheduleLocation.complete_times_dict                              *)
(***************************************************************************)
\* "actual"*(stt=="A") or "estimated", with the flag compared without case.
TimesKeyMutAnyCase(stt) ==
    LET k == StrRepeat("actual", BoolToInt(stt = Some("A") \/ stt = Some("a")))
    IN  IF k # "" THEN k ELSE "estimated"

\* "actual"*(stt=="A") or "estimated"
TimesKey(stt) ==
    LET k == StrRepeat("actual", BoolToInt(stt = Some("A")))
    IN  IF k # "" THEN k ELSE "estimated"

\* One pass of the loop body (lines 283-298): wt and pt are the location's
\* working and public time of the event, t and stt the status's observed
\* time and type flag.
ThisTimes(wt, pt, t, stt) ==
    LET d0 == <<>>
        d1 == IF TruthyTime(wt) THEN DictSet(d0, "working", Val(wt)) ELSE d0
        d2 == IF TruthyTime(pt) THEN DictSet(d1, "public", Val(pt)) ELSE d1
        st == _combine_darwin_time(wt, t)
    IN  IF st.kind = "raise" THEN st
        ELSE IF TruthyTime(st.value) /\ TruthyStr(stt)
        THEN Return(DictSet(d2, TimesKey(stt), Val(st.value)))
        ELSE Return(d2)

\* getattr(self, "pt%s" % letter, None): the class has pta and ptd, no ptp.
PublicTime(loc, letter) ==
    CASE letter = "a" -> loc.pta
      [] letter = "d" -> loc.ptd
      [] OTHER -> None

WorkingTime(loc, letter) ==
    CASE letter = "a" -> loc.wta
      [] letter = "p" -> loc.wtp
      [] OTHER -> loc.wtd

StatusTime(status, letter) ==
    CASE letter = "a" -> status.ta
      [] letter = "p" -> status.tp
      [] OTHER -> status.td

StatusTimeType(status, letter) ==
    CASE letter = "a" -> status.ta_type
      [] letter = "p" -> status.tp_type
      [] OTHER -> status.td_type

\* zip("apd", ["arrival", "pass", "departure"])
Letters == << <<"a", "arrival">>, <<"p", "pass">>, <<"d", "departure">> >>

RECURSIVE TimesLoop(_, _, _, _)
TimesLoop(loc, status, i, out) ==
    IF i > Len(Letters) THEN Return(out)
    ELSE LET letter == Letters[i][1]
             this == ThisTimes(WorkingTime(loc, letter), PublicTime(loc, letter),
                               StatusTime(status, letter), StatusTimeType(status, letter))
         IN  IF this.kind = "raise" THEN this
             ELSE TimesLoop(loc, status, i + 1, DictSet(out, Letters[i][2], this.value))

complete_times_dict(loc, status) == TimesLoop(loc, status, 1, <<>>)

(***************************************************************************)
(* Inputs of complete_times_dict                                           *)
(***************************************************************************)
\* 2020-01-01 23:00:00 (working) and 2020-01-01 23:01:00 (public)
SampleWorking == [date |-> 737425, hour |-> 23, minute |-> 0, second |-> 0]

SamplePublic == [date |-> 737425, hour |-> 23, minute |-> 1, second |-> 0]

\* 01:00:00, observed after midnight
SampleObserved == [hour |-> 1, minute |-> 0, second |-> 0]

TypeFlags == {None, Some(""), Some("A"), Some("E"), Some("a")}

LocTimes ==
    [pta : {None, Some(SamplePublic)}, wta : {None, Some(SampleWorking)},
     wtp : {None, Some(SampleWorking)},
     ptd : {None, Some(SamplePublic)}, wtd : {None, Some(SampleWorking)}]

StatusTimes ==
    [ta : {None, Some(SampleObserved)}, tp : {None, Some(SampleObserved)},
     td : {None, Some(SampleObserved)},
     ta_type : TypeFlags, tp_type : TypeFlags, td_type : TypeFlags]

InitTimes ==
    /\ EmptyStore
    /\ args \in [loc : LocTimes, status : StatusTimes]
    /\ ret = NotCalled

CompleteTimesCall ==
    /\ ret = NotCalled
    /\ ret' = complete_times_dict(args.loc, args.status)
    /\ UNCHANGED <<store, args>>

NextTimes == CompleteTimesCall

SpecTimes == InitTimes /\ [][NextTimes]_vars

(***************************************************************************)
(* DarwinScheduleStatus.format_platform                                    *)
(***************************************************************************)
\* "*" * flag for a nullable BOOLEAN: a str times None is a TypeError.
FlagRepeat(s, flag) ==
    IF flag = None THEN Raise("TypeError")
    ELSE Return(StrRepeat(s, BoolToInt(Val(flag))))

\* self.plat or ' ', with the fallback dropped
PlatOrSpaceMutNoFallback(plat) == IF plat = None THEN "" ELSE Val(plat)

\* self.plat or ' '
PlatOrSpace(plat) == IF TruthyStr(plat) THEN Val(plat) ELSE " "

format_platform(status) ==
    LET star == FlagRepeat("*", status.plat_suppressed)
        dot == FlagRepeat(".", status.plat_confirmed)
    IN  IF star.kind = "raise" THEN star
        ELSE IF dot.kind = "raise" THEN dot
        ELSE Return(star.value \o PlatOrSpace(status.plat) \o dot.value)

Flags == {None, Some(TRUE), Some(FALSE)}

Plats == {None, Some(""), Some("5"), Some("2"), Some("12"), Some("4A")}

InitPlatform ==
    /\ EmptyStore
    /\ args \in [plat_suppressed : Flags, plat : Plats, plat_confirmed : Flags]
    /\ ret = NotCalled

FormatPlatformCall ==
    /\ ret = NotCalled
    /\ ret' = format_platform(args)
    /\ UNCHANGED <<store, args>>

NextPlatform == FormatPlatformCall

SpecPlatform == InitPlatform /\ [][NextPlatform]_vars

(***************************************************************************)
(* The store: the darwin_schedules, darwin_schedule_locations,             *)
(* darwin_schedule_status and darwin_associations tables with the keys and *)
(* constraints the classes declare.  A row carries the columns its keys,   *)
(* constraints and joins read.  darwin_locations is static reference data: *)
(* every tiploc of Tiplocs has its row, so the tiploc foreign keys hold.   *)
(* A statement the store rejects changes no table and raises               *)
(* IntegrityError; outcome is "ok" or names the constraint that rejected   *)
(* the last statement.                                                     *)
(***************************************************************************)
Range(f) == {f[i] : i \in DOMAIN f}

LocationRows == Range(locations)

\* darwin_schedules: primary key (rid), line 174
SchedulePkOk(row) == \A s \in schedules : s.rid # row.rid

\* The constraint left out of the table: never violated.
ScheduleUidSsdOkMutInert(row) == TRUE

\* darwin_schedules: UniqueConstraint("uid", "ssd"), line 171
ScheduleUidSsdOk(row) ==
    \A s \in schedules : ~(s.uid = row.uid /\ s.ssd = row.ssd)

\* darwin_schedule_locations: primary key (rid, index), lines 249 and 253
LocationPkOk(row) ==
    \A l \in LocationRows : ~(l.rid = row.rid /\ l.index = row.index)

\* ForeignKey("darwin_schedules.rid"): lines 249, 366, 383
ScheduleExists(rid) == \E s \in schedules : s.rid = rid

\* darwin_schedule_locations: UniqueConstraint("rid", "original_wt", "tiploc"), line 246
LocationRidWtTiplocOk(row) ==
    \A l \in LocationRows :
        ~(l.rid = row.rid /\ l.original_wt = row.original_wt /\ l.tiploc = row.tiploc)

\* darwin_schedule_status: primary key and UniqueConstraint (rid, tiploc, original_wt)
StatusPkOk(row) ==
    \A st \in statuses :
        ~(st.rid = row.rid /\ st.tiploc = row.tiploc /\ st.original_wt = row.original_wt)

\* darwin_associations: primary key (tiploc, main_rid, main_original_wt,
\* assoc_rid, assoc_original_wt)
AssociationPkOk(row) ==
    \A a \in associations :
        ~(/\ a.tiploc = row.tiploc
          /\ a.main_rid = row.main_rid /\ a.main_original_wt = row.main_original_wt
          /\ a.assoc_rid = row.assoc_rid /\ a.assoc_original_wt = row.assoc_original_wt)

\* darwin_associations: UniqueConstraint("main_rid", "assoc_rid", "tiploc"), line 357
AssociationMainAssocTiplocOk(row) ==
    \A a \in associations :
        ~(a.main_rid = row.main_rid /\ a.assoc_rid = row.assoc_rid /\ a.tiploc = row.tiploc)

\* fkey_main_schedule_loc / fkey_assoc_schedule_loc: (rid, original_wt, tiploc)
\* names a row of darwin_schedule_locations
LocationExists(rid, original_wt, tiploc) ==
    \E l \in LocationRows :
        l.rid = rid /\ l.original_wt = original_wt /\ l.tiploc = tiploc

InsertSchedule(row) ==
    /\ IF ~SchedulePkOk(row)
       THEN outcome' = "darwin_schedules_pkey" /\ UNCHANGED schedules
       ELSE IF ~ScheduleUidSsdOk(row)
       THEN outcome' = "darwin_schedules_uid_ssd_key" /\ UNCHANGED schedules
       ELSE outcome' = "ok" /\ schedules' = schedules \cup {row}
    /\ UNCHANGED <<locations, statuses, associations, args, ret>>

InsertScheduleLocation(row) ==
    /\ IF ~LocationPkOk(row)
       THEN outcome' = "darwin_schedule_locations_pkey" /\ UNCHANGED locations
       ELSE IF ~LocationRidWtTiplocOk(row)
       THEN outcome' = "darwin_schedule_locations_rid_original_wt_tiploc_key"
            /\ UNCHANGED locations
       ELSE IF ~ScheduleExists(row.rid)
       THEN outcome' = "darwin_schedule_locations_rid_fkey" /\ UNCHANGED locations
       ELSE outcome' = "ok" /\ locations' = Append(locations, row)
    /\ UNCHANGED <<schedules, statuses, associations, args, ret>>

\* rid is no foreign key here (line 404): a status row needs no schedule and
\* no calling point.
InsertStatus(row) ==
    /\ IF ~StatusPkOk(row)
       THEN outcome' = "darwin_schedule_status_pkey" /\ UNCHANGED statuses
       ELSE outcome' = "ok" /\ statuses' = statuses \cup {row}
    /\ UNCHANGED <<schedules, locations, associations, args, ret>>

InsertAssociation(row) ==
    /\ IF ~AssociationPkOk(row)
       THEN outcome' = "darwin_associations_pkey" /\ UNCHANGED associations
       ELSE IF ~AssociationMainAssocTiplocOk(row)
       THEN outcome' = "darwin_associations_main_rid_assoc_rid_tiploc_key"
            /\ UNCHANGED associations
       ELSE IF ~(ScheduleExists(row.main_rid) /\ ScheduleExists(row.assoc_rid))
       THEN outcome' = "darwin_associations_rid_fkey" /\ UNCHANGED associations
       ELSE IF ~(/\ LocationExists(row.main_rid, row.main_original_wt, row.tiploc)
                 /\ LocationExists(row.assoc_rid, row.assoc_original_wt, row.tiploc))
       THEN outcome' = "darwin_associations_schedule_loc_fkey" /\ UNCHANGED associations
       ELSE outcome' = "ok" /\ associations' = associations \cup {row}
    /\ UNCHANGED <<schedules, locations, statuses, args, ret>>

\* The rows ON DELETE CASCADE removes with the calling points in gone:
\* fkey_main_schedule_loc and fkey_assoc_schedule_loc, lines 374-377, 390-393.
AssociationsOfLocations(gone) ==
    {a \in associations :
        \E l \in gone :
            /\ l.tiploc = a.tiploc
            /\ \/ l.rid = a.main_rid /\ l.original_wt = a.main_original_wt
               \/ l.rid = a.assoc_rid /\ l.original_wt = a.assoc_original_wt}

\* The rows ON DELETE CASCADE removes with schedule rid: main_rid_constraint
\* and assoc_rid_constraint, lines 367 and 384.
AssociationsOfSchedule(rid) ==
    {a \in associations : a.main_rid = rid \/ a.assoc_rid = rid}

\* DELETE FROM darwin_schedules WHERE rid = :rid.  rid_constraint (line 250)
\* cascades to the calling points, and through them and through lines 367
\* and 384 to the associations.  No constraint ties darwin_schedule_status
\* to the schedule (lines 400 and 404).
DeleteSchedule(rid) ==
    /\ ScheduleExists(rid)
    /\ LET gone == {l \in LocationRows : l.rid = rid}
           Kept(l) == l.rid # rid
       IN  /\ schedules' = {s \in schedules : s.rid # rid}
           /\ locations' = SelectSeq(locations, Kept)
           /\ associations' =
                 (associations \ AssociationsOfSchedule(rid)) \ AssociationsOfLocations(gone)
    /\ outcome' = "ok"
    /\ UNCHANGED <<statuses, args, ret>>

\* DELETE FROM darwin_schedule_locations WHERE rid = :rid AND index = :index
DeleteScheduleLocation(rid, index) ==
    /\ \E l \in LocationRows : l.rid = rid /\ l.index = index
    /\ LET gone == {l \in LocationRows : l.rid = rid /\ l.index = index}
           Kept(l) == ~(l.rid = rid /\ l.index = index)
       IN  /\ locations' = SelectSeq(locations, Kept)
           /\ associations' = associations \ AssociationsOfLocations(gone)
    /\ outcome' = "ok"
    /\ UNCHANGED <<schedules, statuses, args, ret>>

\* DELETE FROM darwin_schedule_status WHERE (rid, tiploc, original_wt) = :key
DeleteStatus(row) ==
    /\ row \in statuses
    /\ statuses' = statuses \ {row}
    /\ outcome' = "ok"
    /\ UNCHANGED <<schedules, locations, associations, args, ret>>

(***************************************************************************)
(* Relationships.  A relationship is the SELECT its primaryjoin states;    *)
(* without order_by the rows come in heap order (locations) or in an order *)
(* the store picks (associations).                                         *)
(***************************************************************************)
\* The rows of a set in some fixed order.
RECURSIVE SetToSeq(_)
SetToSeq(S) ==
    IF S = {} THEN <<>>
    ELSE LET x == CHOOSE y \in S : TRUE IN <<x>> \o SetToSeq(S \ {x})

\* column LIKE '%<suffix>'
LikeSuffix(text, suffix) ==
    /\ Len(text) >= Len(suffix)
    /\ SubSeq(text, Len(text) - Len(suffix) + 1, Len(text)) = suffix

\* DarwinScheduleLocation.status: the row joined on rid, original_wt, tiploc
StatusRows(l) ==
    {st \in statuses :
        l.rid = st.rid /\ l.original_wt = st.original_wt /\ l.tiploc = st.tiploc}

\* lazy="joined" with innerjoin=True: every SELECT of calling points inner
\* joins darwin_schedule_status, so a calling point is loaded only together
\* with its status row.
Loaded(l) == StatusRows(l) # {}

\* ORDER BY DarwinScheduleLocation.index
RECURSIVE InsertByIndex(_, _)
InsertByIndex(sorted, l) ==
    IF sorted = <<>> THEN <<l>>
    ELSE IF l.index < Head(sorted).index THEN <<l>> \o sorted
    ELSE <<Head(sorted)>> \o InsertByIndex(Tail(sorted), l)

RECURSIVE OrderByIndex(_)
OrderByIndex(rows) ==
    IF rows = <<>> THEN <<>>
    ELSE InsertByIndex(OrderByIndex(Tail(rows)), Head(rows))

\* DarwinSchedule.locations, with the order_by left out: heap order
locations_relMutUnordered(rid) ==
    LET Mine(l) == l.rid = rid /\ Loaded(l) IN SelectSeq(locations, Mine)

\* DarwinSchedule.locations
locations_rel(rid) ==
    LET Mine(l) == l.rid = rid /\ Loaded(l) IN OrderByIndex(SelectSeq(locations, Mine))

\* DarwinSchedule.origins_rel
origins_rel(rid) ==
    LET Mine(l) == l.rid = rid /\ LikeSuffix(l.loc_type, <<"O", "R">>) /\ Loaded(l)
    IN  SelectSeq(locations, Mine)

\* DarwinSchedule.destinations_rel
destinations_rel(rid) ==
    LET Mine(l) == l.rid = rid /\ LikeSuffix(l.loc_type, <<"D", "T">>) /\ Loaded(l)
    IN  SelectSeq(locations, Mine)

\* DarwinSchedule.associated_to
schedule_associated_to(rid) == SetToSeq({a \in associations : a.main_rid = rid})

\* DarwinSchedule.associated_from
schedule_associated_from(rid) == SetToSeq({a \in associations : a.assoc_rid = rid})

\* DarwinScheduleLocation.associated_to
location_associated_to(l) ==
    SetToSeq({a \in associations :
                 l.rid = a.main_rid /\ l.original_wt = a.main_original_wt})

\* DarwinScheduleLocation.associated_from
location_associated_from(l) ==
    SetToSeq({a \in associations :
                 l.rid = a.assoc_rid /\ l.original_wt = a.assoc_original_wt})

\* The calling point a composite key names, None when no row is loaded for it.
LocationByKey(rid, original_wt, tiploc) ==
    LET rows == {l \in LocationRows :
                    /\ l.rid = rid /\ l.original_wt = original_wt /\ l.tiploc = tiploc
                    /\ Loaded(l)}
    IN  IF rows = {} THEN None ELSE Some(CHOOSE l \in rows : TRUE)

\* DarwinAssociation.main_schedule_loc
main_schedule_loc(a) == LocationByKey(a.main_rid, a.main_original_wt, a.tiploc)

\* DarwinAssociation.assoc_schedule_loc
assoc_schedule_loc(a) == LocationByKey(a.assoc_rid, a.assoc_original_wt, a.tiploc)

\* The schedule row of a rid (DarwinScheduleLocation.schedule,
\* DarwinAssociation.main_schedule / assoc_schedule): the foreign keys make it exist.
ScheduleByRid(rid) == CHOOSE sch \in schedules : sch.rid = rid

(***************************************************************************)
(* DarwinSchedule.get_origins / get_destinations                           *)
(***************************************************************************)
\* list(zip(len(rows)*[tag], rows))
Tagged(tag, rows) == [i \in 1 .. Len(rows) |-> <<tag, rows[i]>>]

\* [(a.category, b) for a in ... for b in ... if a.category != "NP"];
\* through[i] is <<a.category, the points reached through a>>
RECURSIVE ThroughAssociations(_)
ThroughAssociations(through) ==
    IF through = <<>> THEN <<>>
    ELSE LET category == Head(through)[1]
             mine == IF category # "NP" THEN Tagged(category, Head(through)[2]) ELSE <<>>
         IN  mine \o ThroughAssociations(Tail(through))

get_origins(rid) ==
    LET from == schedule_associated_from(rid)
    IN  Tagged("SC", origins_rel(rid))
            \o ThroughAssociations(
                   [i \in 1 .. Len(from) |->
                       <<from[i].category, origins_rel(from[i].main_rid)>>])

get_destinations(rid) ==
    LET to == schedule_associated_to(rid)
    IN  Tagged("SC", destinations_rel(rid))
            \o ThroughAssociations(
                   [i \in 1 .. Len(to) |->
                       <<to[i].category, destinations_rel(to[i].assoc_rid)>>])

(***************************************************************************)
(* Serialisation.  A result is Return(dict) or Raise(error); a dict is a   *)
(* record of the keys that the modelled columns fill.  depth counts the    *)
(* nested calls; beyond RecursionLimit the interpreter raises              *)
(* RecursionError.                                                         *)
(***************************************************************************)
RecursionLimit == 8

\* The condition of line 342, with limit_associations ignored
ShowAssociationsMutIgnoreLimit(source, limit_associations) == source = "SC"

\* source == "SC" and not limit_associations
ShowAssociations(source, limit_associations) ==
    source = "SC" /\ ~limit_associations

\* DarwinScheduleLocation.complete_associations
complete_associations(l) ==
    LET from == location_associated_from(l)
        to == location_associated_to(l)
    IN  [i \in 1 .. Len(from) |-> <<TRUE, from[i]>>]
            \o [i \in 1 .. Len(to) |-> <<FALSE, to[i]>>]

RECURSIVE LocationSerialise(_, _, _, _, _)
RECURSIVE ScheduleSerialise(_, _, _)
RECURSIVE AssociationsDictLoop(_, _, _)
RECURSIVE SerialiseEach(_, _, _, _)

\* DarwinScheduleLocation.complete_associations_dict
complete_associations_dict(l, depth) ==
    IF depth > RecursionLimit THEN Raise("RecursionError")
    ELSE AssociationsDictLoop(complete_associations(l), <<>>, depth)

\* The for loop of complete_associations_dict over what is left of complete_list
AssociationsDictLoop(left, straightened, depth) ==
    IF left = <<>> THEN Return(straightened)
    ELSE LET k == Head(left)[1]
             v == Head(left)[2]
             other == IF k THEN main_schedule_loc(v) ELSE assoc_schedule_loc(v)
         IN  IF other = None THEN Raise("AttributeError")   \* None.serialise
             ELSE LET assoc == LocationSerialise(Val(other), TRUE, v.category, FALSE,
                                                 depth + 1)
                  IN  IF assoc.kind = "raise" THEN assoc
                      ELSE AssociationsDictLoop(
                               Tail(left),
                               Append(straightened,
                                      [from |-> k, category |-> v.category,
                                       assoc |-> assoc.value,
                                       there |-> IF k THEN assoc.value.origins
                                                 ELSE assoc.value.destinations]),
                               depth)

\* DarwinScheduleLocation.serialise(recurse, source, limit_associations)
LocationSerialise(l, recurse, source, limit_associations, depth) ==
    IF depth > RecursionLimit THEN Raise("RecursionError")
    ELSE LET assocs == IF ShowAssociations(source, limit_associations)
                       THEN complete_associations_dict(l, depth + 1)
                       ELSE Return(<<>>)
         IN  IF assocs.kind = "raise" THEN assocs
             ELSE LET here == [type |-> l.loc_type, source |-> source,
                               associations |-> assocs.value, tiploc |-> l.tiploc]
                  IN  IF ~recurse THEN Return(here)
                      ELSE LET schedule == ScheduleSerialise(l.rid, ~recurse, depth + 1)
                           IN  IF schedule.kind = "raise" THEN schedule
                               ELSE Return([here |-> here] @@ schedule.value)

\* [a.serialise(False, c, limit_associations=limit) for c, a in tagged]
SerialiseEach(tagged, limit_associations, out, depth) ==
    IF tagged = <<>> THEN Return(out)
    ELSE LET one == LocationSerialise(Head(tagged)[2], FALSE, Head(tagged)[1],
                                      limit_associations, depth + 1)
         IN  IF one.kind = "raise" THEN one
             ELSE SerialiseEach(Tail(tagged), limit_associations,
                                Append(out, one.value), depth)

\* DarwinSchedule.serialise(recurse)
ScheduleSerialise(rid, recurse, depth) ==
    IF depth > RecursionLimit THEN Raise("RecursionError")
    ELSE LET sch == ScheduleByRid(rid)
             origins == SerialiseEach(get_origins(rid), TRUE, <<>>, depth)
             destinations == SerialiseEach(get_destinations(rid), TRUE, <<>>, depth)
             locs == SerialiseEach(Tagged("SC", locations_rel(rid)), FALSE, <<>>, depth)
         IN  IF origins.kind = "raise" THEN origins
             ELSE IF destinations.kind = "raise" THEN destinations
             ELSE LET out == [uid |-> sch.uid, ssd |-> sch.ssd, rid |-> sch.rid,
                              origins |-> origins.value,
                              destinations |-> destinations.value]
                  IN  IF ~recurse THEN Return(out)
                      ELSE IF locs.kind = "raise" THEN locs
                      ELSE Return([locations |-> locs.value] @@ out)

(***************************************************************************)
(* Inputs of the store                                                     *)
(***************************************************************************)
Rids == {"r1", "r2"}

Uids == {"u1", "u2"}

Tiplocs == {"T1"}

OriginalWts == {"w1", "w2"}

Indexes == {1, 2}

\* the most rows held in darwin_schedule_locations and darwin_associations
MaxLocations == 2

MaxAssociations == 1

\* one schedule row per rid
ScheduleInputs ==
    {[rid |-> "r1", uid |-> "u1", ssd |-> 737425],
     [rid |-> "r2", uid |-> "u2", ssd |-> 737425]}

\* "OR"
KeyLocationInputs ==
    [rid : Rids, index : Indexes, loc_type : {<<"O", "R">>}, tiploc : Tiplocs,
     original_wt : OriginalWts]

StatusInputs == [rid : Rids, tiploc : Tiplocs, original_wt : OriginalWts]

KeyAssociationInputs ==
    [category : {"JJ"}, tiploc : Tiplocs,
     main_rid : Rids, main_original_wt : OriginalWts,
     assoc_rid : Rids, assoc_original_wt : OriginalWts]

Init ==
    /\ EmptyStore
    /\ args = None
    /\ ret = NotCalled

\* Any statement on the four tables, over every key the inputs can form.
Next ==
    \/ \E row \in ScheduleInputs : InsertSchedule(row)
    \/ \E row \in KeyLocationInputs :
          Len(locations) < MaxLocations /\ InsertScheduleLocation(row)
    \/ \E row \in StatusInputs : InsertStatus(row)
    \/ \E row \in KeyAssociationInputs :
          Cardinality(associations) < MaxAssociations /\ InsertAssociation(row)
    \/ \E rid \in Rids : DeleteSchedule(rid)
    \/ \E rid \in Rids, index \in Indexes : DeleteScheduleLocation(rid, index)
    \/ \E row \in StatusInputs : DeleteStatus(row)

Spec == Init /\ [][Next]_vars

(***************************************************************************)
(* Schedules alone: every (rid, uid, ssd) over three rids                  *)
(***************************************************************************)
AllScheduleInputs == [rid : Rids \cup {"r3"}, uid : Uids, ssd : Dates]

NextSchedules ==
    \/ \E row \in AllScheduleInputs : InsertSchedule(row)
    \/ \E rid \in Rids \cup {"r3"} : DeleteSchedule(rid)

SpecSchedules == Init /\ [][NextSchedules]_vars

(***************************************************************************)
(* One schedule and its calling points: every index, every order of        *)
(* insertion, one tiploc per calling point so that the rendered points     *)
(* can be told apart                                                       *)
(***************************************************************************)
OrderRid == "r1"

OrderIndexes == {1, 2, 3}

OrderTiplocs == {"T1", "T2", "T3"}

OrderScheduleInputs == {row \in ScheduleInputs : row.rid = OrderRid}

OrderLocationInputs ==
    [rid : {OrderRid}, index : OrderIndexes, loc_type : {<<"O", "R">>},
     tiploc : OrderTiplocs, original_wt : {"w1"}]

OrderStatusInputs == [rid : {OrderRid}, tiploc : OrderTiplocs, original_wt : {"w1"}]

NextOrder ==
    \/ \E row \in OrderScheduleInputs : InsertSchedule(row)
    \/ \E row \in OrderLocationInputs : InsertScheduleLocation(row)
    \/ \E row \in OrderStatusInputs : InsertStatus(row)
    \/ \E index \in OrderIndexes : DeleteScheduleLocation(OrderRid, index)
    \/ \E row \in OrderStatusInputs : DeleteStatus(row)

SpecOrder == Init /\ [][NextOrder]_vars

(***************************************************************************)
(* Three schedules of one calling point each, joined by associations of    *)
(* mixed categories: r2 is the associated side of r1 and r3, r1 is the     *)
(* main side of r2 and r3                                                  *)
(***************************************************************************)
ItineraryRids == {"r1", "r2", "r3"}

ItineraryScheduleInputs ==
    ScheduleInputs \cup {[rid |-> "r3", uid |-> "u1", ssd |-> 737426]}

\* "OR", "OPDT", "IP"
ItineraryLocTypes == {<<"O", "R">>, <<"O", "P", "D", "T">>, <<"I", "P">>}

ItineraryLocationInputs ==
    [rid : ItineraryRids, index : {1}, loc_type : ItineraryLocTypes,
     tiploc : Tiplocs, original_wt : {"w1"}]

ItineraryStatusInputs == [rid : ItineraryRids, tiploc : Tiplocs, original_wt : {"w1"}]

ItineraryPairs == {<<"r1", "r2">>, <<"r3", "r2">>, <<"r1", "r3">>}

ItineraryCategories == {"JJ", "NP"}

ItineraryAssociationInputs ==
    {[category |-> c, tiploc |-> t,
      main_rid |-> pair[1], main_original_wt |-> "w1",
      assoc_rid |-> pair[2], assoc_original_wt |-> "w1"] :
        c \in ItineraryCategories, t \in Tiplocs, pair \in ItineraryPairs}

NextItinerary ==
    \/ \E row \in ItineraryScheduleInputs : InsertSchedule(row)
    \/ \E row \in ItineraryLocationInputs : InsertScheduleLocation(row)
    \/ \E row \in ItineraryStatusInputs : InsertStatus(row)
    \/ \E row \in ItineraryAssociationInputs : InsertAssociation(row)
    \/ \E rid \in ItineraryRids : DeleteSchedule(rid)

SpecItinerary == Init /\ [][NextItinerary]_vars

(***************************************************************************)
(* Two schedules of one calling point each, associated in either           *)
(* direction; an association of category "SC" makes serialise recurse      *)
(***************************************************************************)
SerialiseLocationInputs == {row \in ItineraryLocationInputs : row.rid \in Rids}

SerialiseStatusInputs == {row \in ItineraryStatusInputs : row.rid \in Rids}

SerialiseCategories == {"JJ", "NP", "SC"}

SerialiseAssociationInputs ==
    {row \in [category : SerialiseCategories, tiploc : Tiplocs,
              main_rid : Rids, main_original_wt : {"w1"},
              assoc_rid : Rids, assoc_original_wt : {"w1"}] :
        row.main_rid # row.assoc_rid}

NextSerialise ==
    \/ \E row \in ScheduleInputs : InsertSchedule(row)
    \/ \E row \in SerialiseLocationInputs : InsertScheduleLocation(row)
    \/ \E row \in SerialiseStatusInputs : InsertStatus(row)
    \/ \E row \in SerialiseAssociationInputs : InsertAssociation(row)
    \/ \E rid \in Rids, index \in {1} : DeleteScheduleLocation(rid, index)
    \/ \E row \in SerialiseStatusInputs : DeleteStatus(row)

SpecSerialise == Init /\ [][NextSerialise]_vars

(***************************************************************************)
(* Two schedules whose calling points may share a working time at two      *)
(* different tiplocs, and the associations of r1 (main) with r2            *)
(***************************************************************************)
SidesTiplocs == {"T1", "T2"}

SidesLocationInputs ==
    [rid : Rids, index : Indexes, loc_type : {<<"O", "R">>},
     tiploc : SidesTiplocs, original_wt : {"w1"}]

SidesStatusInputs == [rid : Rids, tiploc : SidesTiplocs, original_wt : {"w1"}]

SidesAssociationInputs ==
    [category : {"JJ"}, tiploc : SidesTiplocs,
     main_rid : {"r1"}, main_original_wt : {"w1"},
     assoc_rid : {"r2"}, assoc_original_wt : {"w1"}]

NextSides ==
    \/ \E row \in ScheduleInputs : InsertSchedule(row)
    \/ \E row \in SidesLocationInputs : InsertScheduleLocation(row)
    \/ \E row \in SidesStatusInputs : InsertStatus(row)
    \/ \E row \in SidesAssociationInputs : InsertAssociation(row)
    \/ \E rid \in Rids, index \in Indexes : DeleteScheduleLocation(rid, index)

SpecSides == Init /\ [][NextSides]_vars

(***************************************************************************)
(* Properties of the store                                                 *)
(***************************************************************************)
\* No row of the three child tables references run id r.
NoRowReferences(r) ==
    /\ \A l \in LocationRows : l.rid # r
    /\ \A st \in statuses : st.rid # r
    /\ \A a \in associations : a.main_rid # r /\ a.assoc_rid # r

\* C1: after deleting the Schedule row with run id r, the store holds no
\* ScheduleLocation, no Status and no Association row that references r.
C1_DeleteCascades ==
    [][\A r \in Rids : DeleteSchedule(r) => NoRowReferences(r)']_vars

NoSharedUidSsd ==
    \A s1, s2 \in schedules : (s1.uid = s2.uid /\ s1.ssd = s2.ssd) => s1 = s2

\* An existing row with another rid has the (uid, ssd) of row.
CollidesOnUidSsd(row) ==
    \E s \in schedules : s.uid = row.uid /\ s.ssd = row.ssd /\ s.rid # row.rid

\* C2: no two Schedule rows ever share (uid, ssd); an insert whose (uid, ssd)
\* is that of an existing row with another rid is rejected as a constraint
\* violation and leaves the rows unchanged.
C2_UniqueUidSsd ==
    [][/\ NoSharedUidSsd'
       /\ \A row \in AllScheduleInputs :
             (InsertSchedule(row) /\ CollidesOnUidSsd(row)) =>
                 /\ outcome' \in {"darwin_schedules_uid_ssd_key", "darwin_schedules_pkey"}
                 /\ schedules' = schedules]_vars

\* The (uid, ssd) constraint has rejected an insert while a schedule of the
\* same uid on another day was accepted.
C2_Witness ==
    /\ outcome = "darwin_schedules_uid_ssd_key"
    /\ \E s1, s2 \in schedules : s1.uid = s2.uid /\ s1.ssd # s2.ssd

\* C9: every ScheduleLocation row has exactly one Status row with its
\* (rid, tiploc, original_wt), and every Status row exactly one
\* ScheduleLocation row.
C9_OneStatusPerLocation ==
    /\ \A l \in LocationRows :
          Cardinality({st \in statuses :
              st.rid = l.rid /\ st.tiploc = l.tiploc /\ st.original_wt = l.original_wt}) = 1
    /\ \A st \in statuses :
          Cardinality({l \in LocationRows :
              st.rid = l.rid /\ st.tiploc = l.tiploc /\ st.original_wt = l.original_wt}) = 1

(***************************************************************************)
(* Properties of the time reconciliation                                   *)
(***************************************************************************)
BothPresent == args.working_time # None /\ args.darwin_time # None

\* seconds(L) - seconds(timeOfDay(W)) of the call's arguments
DeltaSeconds ==
    LET W == Val(args.working_time)
        L == Val(args.darwin_time)
    IN  (L.hour * 3600 + L.minute * 60 + L.second)
            - (W.hour * 3600 + W.minute * 60 + W.second)

\* The day offset the claim assigns to the call's arguments.
ClaimedOffset ==
    IF DeltaSeconds < -6 * 3600 THEN 1
    ELSE IF DeltaSeconds <= 18 * 3600 THEN 0
    ELSE -1

\* C3: for present W and L, combineTime(W, L) returns date(W) combined with L,
\* shifted by +1 day when delta < -6h, by 0 days when -6h <= delta <= +18h and
\* by -1 day when delta > +18h; it never fails.
C3_CombineOffsets ==
    (ret # NotCalled /\ BothPresent) =>
        LET W == Val(args.working_time)
            L == Val(args.darwin_time)
        IN  ret = Return(Some([date |-> W.date + ClaimedOffset, hour |-> L.hour,
                               minute |-> L.minute, second |-> L.second]))

\* A call 18h00m01s "later" than the working time came back a day earlier.
C3_Witness ==
    /\ ret # NotCalled
    /\ BothPresent
    /\ DeltaSeconds = 18 * 3600 + 1
    /\ ret.kind = "return"
    /\ Val(ret.value).date = Val(args.working_time).date - 1

\* C4: combineTime returns the absent value, without raising, whenever the
\* working timestamp or the live time-of-day is absent, whatever the other is.
C4_AbsentIn_AbsentOut ==
    (ret # NotCalled /\ ~BothPresent) => ret = Return(None)

\* A call with an absent working time and a present live time has returned.
C4_Witness ==
    /\ ret # NotCalled
    /\ args.working_time = None
    /\ args.darwin_time # None
    /\ ret = Return(None)

(***************************************************************************)
(* Properties of complete_times_dict                                       *)
(***************************************************************************)
\* A type flag that carries no flag: NULL, or the empty string.
FlagAbsent(stt) == stt = None \/ stt = Some("")

\* What the claim says of the sub-map of one event: wt, t and stt are the
\* working time, the observed time and the type flag of the event.
TimesSubMapAsClaimed(sub, wt, t, stt) ==
    LET comb == _combine_darwin_time(wt, t).value
        keyed == ~FlagAbsent(stt) /\ comb # None
    IN  /\ "actual" \in DictKeys(sub) <=> (keyed /\ stt = Some("A"))
        /\ "estimated" \in DictKeys(sub) <=> (keyed /\ stt # Some("A"))
        /\ ~({"actual", "estimated"} \subseteq DictKeys(sub))
        /\ "actual" \in DictKeys(sub) => DictGet(sub, "actual") = Val(comb)
        /\ "estimated" \in DictKeys(sub) => DictGet(sub, "estimated") = Val(comb)

\* C6: for each of arrival, pass and departure the combined live time is
\* under `actual` only when the type flag is exactly "A", under `estimated`
\* for every other flag that is set, never under both, and under neither when
\* the flag is absent or the combined time is.
C6_ActualOnlyForA ==
    ret # NotCalled =>
        /\ ret.kind = "return"
        /\ DictKeys(ret.value) = {"arrival", "pass", "departure"}
        /\ TimesSubMapAsClaimed(DictGet(ret.value, "arrival"),
                                args.loc.wta, args.status.ta, args.status.ta_type)
        /\ TimesSubMapAsClaimed(DictGet(ret.value, "pass"),
                                args.loc.wtp, args.status.tp, args.status.tp_type)
        /\ TimesSubMapAsClaimed(DictGet(ret.value, "departure"),
                                args.loc.wtd, args.status.td, args.status.td_type)

\* One call whose arrival is actual (flag "A"), whose pass is estimated (flag
\* "a", not exactly "A") and whose departure has neither key (no flag).
C6_Witness ==
    /\ ret # NotCalled
    /\ args.status.ta_type = Some("A")
    /\ args.status.tp_type = Some("a")
    /\ args.status.td_type = None
    /\ args.status.td # None /\ args.loc.wtd # None
    /\ "actual" \in DictKeys(DictGet(ret.value, "arrival"))
    /\ "estimated" \in DictKeys(DictGet(ret.value, "pass"))
    /\ DictKeys(DictGet(ret.value, "departure")) = {"working"}

(***************************************************************************)
(* Properties of format_platform                                           *)
(***************************************************************************)
\* C10: for boolean flags and a platform code that is a string or absent,
\* formatPlatform returns "*" if suppressed, then the platform code or one
\* space when no code is set (NULL or empty), then "." if confirmed.
C10_FormatPlatform ==
    (ret # NotCalled /\ args.plat_suppressed # None /\ args.plat_confirmed # None) =>
        ret = Return((IF Val(args.plat_suppressed) THEN "*" ELSE "")
                     \o (IF args.plat \in {None, Some("")} THEN " " ELSE Val(args.plat))
                     \o (IF Val(args.plat_confirmed) THEN "." ELSE ""))

\* The three examples of the claim have been computed.
C10_Witness ==
    /\ ret # NotCalled
    /\ \/ args = [plat_suppressed |-> Some(TRUE), plat |-> Some("5"),
                  plat_confirmed |-> Some(FALSE)] /\ ret = Return("*5")
       \/ args = [plat_suppressed |-> Some(FALSE), plat |-> None,
                  plat_confirmed |-> Some(TRUE)] /\ ret = Return(" .")
       \/ args = [plat_suppressed |-> Some(FALSE), plat |-> Some("2"),
                  plat_confirmed |-> Some(TRUE)] /\ ret = Return("2.")

(***************************************************************************)
(* Properties of the locations array                                       *)
(***************************************************************************)
\* The calling point of schedule OrderRid that an entry of the array renders
PointOf(entry) ==
    CHOOSE l \in LocationRows : l.rid = OrderRid /\ l.tiploc = entry.tiploc

\* The calling points that the entries of a rendered array stand for
PointsOf(array) == [i \in 1 .. Len(array) |-> PointOf(array[i])]

StrictlyAscending(points) ==
    \A i, j \in 1 .. Len(points) : i < j => points[i].index < points[j].index

EachExactlyOnce(points, rows) ==
    /\ Range(points) = rows
    /\ Len(points) = Cardinality(rows)

EveryPointHasStatus == \A l \in LocationRows : Loaded(l)

OwnPoints(rid, suffix) ==
    LET Mine(l) == l.rid = rid /\ LikeSuffix(l.loc_type, suffix)
    IN  SelectSeq(locations, Mine)

\* What the associations in through contribute: for each one that is not
\* "NP", the points of the schedule on its other side, tagged with its category
ClaimedThrough(through, suffix, main_side) ==
    UNION {{<<a.category, l>> :
               l \in {m \in LocationRows :
                         /\ LikeSuffix(m.loc_type, suffix)
                         /\ m.rid = (IF main_side THEN a.main_rid ELSE a.assoc_rid)}} :
           a \in {b \in through : b.category # "NP"}}

\* got is own, each tagged "SC", followed by the members of through
AsClaimed(got, own, through) ==
    /\ Len(got) = Len(own) + Cardinality(through)
    /\ SubSeq(got, 1, Len(own)) = Tagged("SC", own)
    /\ Range(SubSeq(got, Len(own) + 1, Len(got))) = through
    /\ \A i \in 1 .. Len(got) : got[i][1] # "NP"

\* C5: getOrigins(S) is S's own calling points of a type ending in "OR", each
\* tagged "SC", followed by the origin points of the main schedule of every
\* association with assoc_rid = S.rid and a category other than "NP", tagged
\* with that category; getDestinations(S) is the same with "DT", main_rid =
\* S.rid and the destination points of the associated schedule.
C5_OriginsAndDestinations ==
    \A sch \in schedules :
        /\ AsClaimed(get_origins(sch.rid),
                     OwnPoints(sch.rid, <<"O", "R">>),
                     ClaimedThrough({a \in associations : a.assoc_rid = sch.rid},
                                    <<"O", "R">>, TRUE))
        /\ AsClaimed(get_destinations(sch.rid),
                     OwnPoints(sch.rid, <<"D", "T">>),
                     ClaimedThrough({a \in associations : a.main_rid = sch.rid},
                                    <<"D", "T">>, FALSE))

(***************************************************************************)
(* Properties of DarwinScheduleLocation.serialise                          *)
(***************************************************************************)
Sources == {"SC", "JJ", "NP"}

\* The dict of the calling point itself in what LocationSerialise returned
HereOf(value, recurse) == IF recurse THEN value.here ELSE value

\* C8: the associations list that ScheduleLocation.serialise(recurse, source,
\* limitAssociations) returns is the result of completeAssociationsDict when
\* source is "SC" and limitAssociations is false, and the empty list for
\* every other combination; every calling point in the origins and
\* destinations of a serialised schedule has an empty associations list.
C8_AssociationsOnlyForSC ==
    /\ \A l \in {m \in LocationRows : Loaded(m)}, recurse \in BOOLEAN,
          source \in Sources, limit_associations \in BOOLEAN :
          LET out == LocationSerialise(l, recurse, source, limit_associations, 0)
              dict == complete_associations_dict(l, 1)
          IN  IF source = "SC" /\ ~limit_associations
              THEN IF dict.kind = "raise" THEN out = dict
                   ELSE out.kind = "return" =>
                            HereOf(out.value, recurse).associations = dict.value
              ELSE out.kind = "return" =>
                       HereOf(out.value, recurse).associations = <<>>
    /\ \A sch \in schedules, recurse \in BOOLEAN :
          LET out == ScheduleSerialise(sch.rid, recurse, 0)
          IN  out.kind = "return" =>
                  /\ \A i \in 1 .. Len(out.value.origins) :
                        out.value.origins[i].associations = <<>>
                  /\ \A i \in 1 .. Len(out.value.destinations) :
                        out.value.destinations[i].associations = <<>>

\* An origin with an association: serialised on its own it lists the
\* association, serialised with limit_associations or among the origins of
\* its schedule it lists none.
C8_Witness ==
    \E l \in {m \in LocationRows : Loaded(m)} :
        LET alone == LocationSerialise(l, FALSE, "SC", FALSE, 0)
            limited == LocationSerialise(l, FALSE, "SC", TRUE, 0)
            schedule == ScheduleSerialise(l.rid, FALSE, 0)
        IN  /\ alone.kind = "return" /\ alone.value.associations # <<>>
            /\ limited.kind = "return" /\ limited.value.associations = <<>>
            /\ schedule.kind = "return"
            /\ \E i \in 1 .. Len(schedule.value.origins) :
                  /\ schedule.value.origins[i].tiploc = l.tiploc
                  /\ schedule.value.origins[i].source = "SC"
                  /\ schedule.value.origins[i].associations = <<>>

(***************************************************************************)
(* Properties of complete_associations                                     *)
(***************************************************************************)
\* Calling point l is the side of an association that the key names.
IsSide(l, rid, original_wt, tiploc) ==
    l.rid = rid /\ l.original_wt = original_wt /\ l.tiploc = tiploc

\* C11: completeAssociations(L) returns exactly the associations of which L is
\* a side by (rid, original working time, tiploc): tagged true where L is the
\* associated side, tagged false where L is the main side, and none of
\* which L is neither side.
C11_OnlyOwnSides ==
    \A l \in {m \in LocationRows : Loaded(m)} :
        LET got == complete_associations(l)
            claimed ==
                {<<TRUE, a>> : a \in {b \in associations :
                    IsSide(l, b.assoc_rid, b.assoc_original_wt, b.tiploc)}}
                \cup
                {<<FALSE, a>> : a \in {b \in associations :
                    IsSide(l, b.main_rid, b.main_original_wt, b.tiploc)}}
        IN  Range(got) = claimed /\ Len(got) = Cardinality(claimed)

(***************************************************************************)
(* Properties of the depth of serialise                                    *)
(***************************************************************************)
\* C12: in every store state, cycles of associations included, and for every
\* association category, ScheduleLocation.serialise and Schedule.serialise
\* terminate: the nesting of serialise calls stays within a constant depth
\* and never exhausts the interpreter's recursion limit.
C12_SerialiseTerminates ==
    /\ \A l \in {m \in LocationRows : Loaded(m)}, recurse \in BOOLEAN,
          source \in Sources, limit_associations \in BOOLEAN :
          LocationSerialise(l, recurse, source, limit_associations, 0)
              # Raise("RecursionError")
    /\ \A sch \in schedules, recurse \in BOOLEAN :
          ScheduleSerialise(sch.rid, recurse, 0) # Raise("RecursionError")

(***************************************************************************)
(* Properties of the distance between the result and the working time      *)
(***************************************************************************)
SecondsPerDay == 86400

\* R - W in seconds, for the result R of the call and its working timestamp W
ElapsedSeconds ==
    LET W == Val(args.working_time)
        R == Val(ret.value)
    IN  (R.date - W.date) * SecondsPerDay + SecondsOf(R) - SecondsOf(W)

\* C13: for present W and L, R = combineTime(W, L) has the time of day L, a
\* date at most one day from date(W), and -6 hours <= R - W <= +18 hours.
C13_ResultNearWorkingTime ==
    (ret # NotCalled /\ BothPresent) =>
        /\ ret.kind = "return"
        /\ ret.value # None
        /\ LET W == Val(args.working_time)
               L == Val(args.darwin_time)
               R == Val(ret.value)
           IN  /\ R.hour = L.hour /\ R.minute = L.minute /\ R.second = L.second
               /\ R.date - W.date \in {-1, 0, 1}
               /\ ElapsedSeconds >= EarlyHours * SecondsPerHour
               /\ ElapsedSeconds <= LateHours * SecondsPerHour

\* A working time of 23:59:59 and a live time of 00:00:00: the result is on
\* the next day, one second after the working time.
C13_Witness ==
    /\ ret # NotCalled
    /\ BothPresent
    /\ SecondsOf(Val(args.working_time)) = 23 * 3600 + 59 * 60 + 59
    /\ SecondsOf(Val(args.darwin_time)) = 0
    /\ ret.kind = "return"
    /\ Val(ret.value).date = Val(args.working_time).date + 1
    /\ ElapsedSeconds = 1

====
